---- MODULE Spec2Model ----
(***************************************************************************)
(* FunctionsConsumer (contracts/FunctionsConsumer.sol): per-proposal       *)
(* commitments delivered by an oracle, and hash-verified, at-most-once     *)
(* dispatch of an external call.                                           *)
(*                                                                         *)
(* One EVM transaction is all-or-nothing.  The only place where control    *)
(* leaves the contract is the low-level call in exec(); the model splits   *)
(* executeProposalWithIndex there: the part up to the external call pushes *)
(* a frame holding the storage as it was on entry, the callee may call     *)
(* back into the public entry points while the frame is open, and          *)
(* dispatchReturn finishes the call (keeping the writes) or reverts it     *)
(* (restoring the saved storage).                                          *)
(*                                                                         *)
(* Modelling assumptions: keccak256 is collision free on the modelled      *)
(* tuples; a callee reached through DELEGATECALL does not overwrite the    *)
(* consumer's storage slots.                                               *)
(***************************************************************************)
EXTENDS Integers, Sequences, FiniteSets, TLC

\* ---------------------------------------------------------------- bounds
MaxRequests == 2
MaxTxIndex == 1
MaxDepth == 2
MaxLog == 2
MaxChoices == 3
MaxPayloadLen == 66

\* ------------------------------------------------------ program constants
WordSize == 32

\* ------------------------------------------------------------ input sets
ProposalIds == {"p1", "p2"}
NoProposal == ""
Owner == "owner"
Callers == {"owner", "other"}
RequestIds == 1..MaxRequests
TxIndices == 0..MaxTxIndex
ReturnDatas == {<<>>, <<9>>}
Errors == {<<5>>}


Zeros(n) == [i \in 1..n |-> 0]

\* abi.encode(to, value, data, operation): an injective encoding of the tuple
AbiEncode(to, value, data, operation) ==
  <<to, value, Len(data)>> \o data \o <<operation>>

\* keccak256 of an encoding, as a 32-byte word; injective on the encodings
\* of Txs (left-padded with zero bytes)
Keccak256(enc) == Zeros(WordSize - Len(enc)) \o enc

TxHash(tx) == Keccak256(AbiEncode(tx.to, tx.value, tx.data, tx.operation))

\* a loop that stops before the last complete word (i < data.length)
bytesToBytes32Array_DropLast(data) ==
  LET dataNb == (Len(data) - 1) \div WordSize
  IN  [index \in 1..dataNb |->
         SubSeq(data, (index - 1) * WordSize + 1, index * WordSize)]

\* bytesToBytes32Array: data.length / 32 words, word k = bytes 32k+1 .. 32k+32
bytesToBytes32Array(data) ==
  LET dataNb == Len(data) \div WordSize
  IN  [index \in 1..dataNb |->
         SubSeq(data, (index - 1) * WordSize + 1, index * WordSize)]

TxA == [to |-> 1, value |-> 1, data |-> <<>>, operation |-> 0]
TxB == [to |-> 2, value |-> 0, data |-> <<7>>, operation |-> 1]
TxC == [to |-> 1, value |-> 1, data |-> <<>>, operation |-> 2]

\* the tuples a caller presents: the committed ones (TxA, TxB, TxC), and
\* those that differ from TxA in exactly one field (TxC is one of them)
Txs ==
  {TxA, TxB, TxC, [TxA EXCEPT !.to = 2], [TxA EXCEPT !.value = 0],
   [TxA EXCEPT !.data = <<7>>], [TxA EXCEPT !.operation = 1]}

\* oracle responses: one commitment, two commitments, one commitment and a
\* partial trailing chunk
Payloads ==
  { TxHash(TxA),
    TxHash(TxB) \o TxHash(TxA),
    TxHash(TxC) \o <<1, 2, 3>> }

\* exactly one of {response, err} is set
Deliveries ==
  { <<pl, <<>>>> : pl \in Payloads } \cup { <<<<>>, e>> : e \in Errors }

\* ----------------------------------------------------------------- state
VARIABLES
  functionRequestsForProposals,  \* requestId -> proposalId ("" when unset)
  proposals,                     \* proposalId -> bytes32[]
  executed,                      \* proposalId -> bool
  pendingRequests,               \* request ids sent and not yet fulfilled
  nextRequestId,                 \* the id the next sendRequest returns
  dispatchLog,                   \* external calls that completed successfully
  stack,                         \* open executeProposalWithIndex frames
  last,                          \* the last call that returned, and how
  vote,                          \* the proposal the vote service returned
  resolution,                    \* how the source (snapshot.js) ended on it
  pc                             \* position of the simulation task

vars == <<functionRequestsForProposals, proposals, executed, pendingRequests,
          nextRequestId, dispatchLog, stack, last, vote, resolution, pc>>

\* the contract's own state, and the state of the off-chain run
contractVars == <<functionRequestsForProposals, proposals, executed,
                  pendingRequests, nextRequestId, dispatchLog, stack, last>>
offchainVars == <<vote, resolution, pc>>

NoReason == [kind |-> "none", msg |-> "", data |-> <<>>]
ErrorString(m) == [kind |-> "Error", msg |-> m, data |-> <<>>]
Panic(code) == [kind |-> "Panic", msg |-> code, data |-> <<>>]
RawRevert(d) == [kind |-> "Raw", msg |-> "", data |-> d]

AlreadyExecuted == ErrorString("Proposal already executed")
HashMismatch == ErrorString("Tx hash mismatch")
ModuleFailed == ErrorString("Module transaction failed")
SilentExecutionFailure == ErrorString("Transaction reverted silently")
OnlyOwner == ErrorString("Only callable by owner")
IndexOutOfBounds == Panic("0x32")

\* ------------------------------------------------- the source (snapshot.js)
\* a value that is absent from the JSON the vote service returned
Undefined == "undefined"

\* Math.max(...scores), -Infinity for no scores (scores are not negative)
MinusInfinity == -1
MathMax(scores) ==
  IF scores = <<>> THEN MinusInfinity
  ELSE CHOOSE m \in {scores[i] : i \in DOMAIN scores} :
         \A i \in DOMAIN scores : scores[i] <= m

\* the index (from 0) of the last element equal to x, -1 when there is none
indexOf_Last(seq, x) ==
  IF \E i \in DOMAIN seq : seq[i] = x
    THEN (CHOOSE i \in DOMAIN seq :
            seq[i] = x /\ \A j \in DOMAIN seq : seq[j] = x => j <= i) - 1
    ELSE -1

\* Array.prototype.indexOf: the index (from 0) of the first element equal to
\* x, -1 when there is none
indexOf(seq, x) ==
  IF \E i \in DOMAIN seq : seq[i] = x
    THEN (CHOOSE i \in DOMAIN seq :
            seq[i] = x /\ \A j \in 1..(i - 1) : seq[j] # x) - 1
    ELSE -1

\* choices[scores.indexOf(Math.max(...scores))]; an index outside the array
\* reads undefined
winningChoice(choices, scores) ==
  LET k == indexOf(scores, MathMax(scores))
  IN  IF k + 1 \in DOMAIN choices THEN choices[k + 1] ELSE Undefined

\* executableIf === winningChoice
shouldExecute(executableIf, choices, scores) ==
  executableIf = winningChoice(choices, scores)

\* strings are sequences of characters
HexDigits ==
  <<"0", "1", "2", "3", "4", "5", "6", "7", "8", "9", "a", "b", "c", "d",
    "e", "f">>
IsHexDigit(ch) == \E i \in DOMAIN HexDigits : HexDigits[i] = ch
HexValue(ch) == (CHOOSE i \in DOMAIN HexDigits : HexDigits[i] = ch) - 1

\* String.prototype.slice(start)
slice(str, start) == SubSeq(str, start + 1, Len(str))

\* Buffer.from(str, 'hex'): one byte per pair of hex digits, up to the first
\* pair that is not two hex digits; a last single character is dropped
RECURSIVE BufferFromHex(_)
BufferFromHex(str) ==
  IF Len(str) < 2 \/ ~IsHexDigit(str[1]) \/ ~IsHexDigit(str[2]) THEN <<>>
  ELSE <<16 * HexValue(str[1]) + HexValue(str[2])>>
         \o BufferFromHex(slice(str, 2))

\* how a run of the source ends: it throws, or it returns a value
Thrown(type, msg) ==
  [kind |-> "throw", type |-> type, msg |-> msg, bytes |-> <<>>]
Returned(type, msg, bytes) ==
  [kind |-> "return", type |-> type, msg |-> msg, bytes |-> bytes]
NoResolution == [kind |-> "none", type |-> "", msg |-> "", bytes |-> <<>>]

RequestFailed == Thrown("Error", "Snapshot request failed")
NotFinalized == Thrown("Error", "Snapshot vote is not final")
QuorumNotReached == Thrown("Error", "Snapshot vote quorum not reached")
NoExecution == Returned("Error", "Snpashot vote outcome should not execute", <<>>)
SliceOfUndefined ==
  Thrown("TypeError", "Cannot read properties of undefined (reading 'slice')")

\* a source that looks at the quorum before it looks at scores_state
snapshot_QuorumFirst(v) ==
  IF v.error THEN RequestFailed
  ELSE IF v.scores_total < v.quorum THEN QuorumNotReached
  ELSE IF v.scores_state # "final" THEN NotFinalized
  ELSE IF ~shouldExecute(v.executableIf, v.choices, v.scores) THEN NoExecution
  ELSE IF ~v.hasTxString THEN SliceOfUndefined
  ELSE Returned("Buffer", "", BufferFromHex(slice(v.txString, 2)))

\* a source that lets a vote through when scores_total is one short
snapshot_QuorumOffByOne(v) ==
  IF v.error THEN RequestFailed
  ELSE IF v.scores_state # "final" THEN NotFinalized
  ELSE IF v.scores_total + 1 < v.quorum THEN QuorumNotReached
  ELSE IF ~shouldExecute(v.executableIf, v.choices, v.scores) THEN NoExecution
  ELSE IF ~v.hasTxString THEN SliceOfUndefined
  ELSE Returned("Buffer", "", BufferFromHex(slice(v.txString, 2)))

\* a source that goes on to the payload whatever the winning choice is
snapshot_NoOutcomeCheck(v) ==
  IF v.error THEN RequestFailed
  ELSE IF v.scores_state # "final" THEN NotFinalized
  ELSE IF v.scores_total < v.quorum THEN QuorumNotReached
  ELSE IF ~v.hasTxString THEN SliceOfUndefined
  ELSE Returned("Buffer", "", BufferFromHex(slice(v.txString, 2)))

\* the source, run on the response v of the vote service: v.error is the
\* error of the HTTP request, the other fields are those of data.data.proposal
\* (executableIf, txString: the fields of plugins.safeSnap)
snapshot(v) ==
  IF v.error THEN RequestFailed
  ELSE IF v.scores_state # "final" THEN NotFinalized
  ELSE IF v.scores_total < v.quorum THEN QuorumNotReached
  ELSE IF ~shouldExecute(v.executableIf, v.choices, v.scores) THEN NoExecution
  ELSE IF ~v.hasTxString THEN SliceOfUndefined
  ELSE Returned("Buffer", "", BufferFromHex(slice(v.txString, 2)))

\* ------------------------------------------- responses of the vote service
ChoiceNames == [i \in 1..(MaxChoices + 1) |-> <<"A", "B", "C", "D", "E">>[i]]
ScoreValues == {1, 5}
ScoresStates == {"final", "pending"}
Quorums == {6}
ScoresTotals == {5, 6, 7}
ExecutableIfs == {"A", "B", Undefined}

\* "0x" followed by two hex digits per byte
RECURSIVE HexOf(_)
HexOf(bytes) ==
  IF bytes = <<>> THEN <<>>
  ELSE <<HexDigits[(bytes[1] \div 16) + 1], HexDigits[(bytes[1] % 16) + 1]>>
         \o HexOf(Tail(bytes))
HexString(bytes) == <<"0", "x">> \o HexOf(bytes)

\* no response yet
NoVote ==
  [error |-> FALSE, choices |-> <<>>, scores |-> <<>>, scores_state |-> "",
   scores_total |-> 0, quorum |-> 0, executableIf |-> Undefined,
   hasTxString |-> FALSE, txString |-> <<>>, tx |-> TxA]

\* a final vote with quorum whose winning choice, B, is the executableIf one;
\* its first transaction is TxA and its txString is the hash of TxA in hex
AuthorisedVote ==
  [error |-> FALSE, choices |-> <<"A", "B", "C">>, scores |-> <<1, 5, 5>>,
   scores_state |-> "final", scores_total |-> 6, quorum |-> 6,
   executableIf |-> "B", hasTxString |-> TRUE,
   txString |-> HexString(TxHash(TxA)), tx |-> TxA]

\* every combination of the fields the decision is made from
DecisionVotes ==
  UNION { { [AuthorisedVote EXCEPT !.choices = SubSeq(ChoiceNames, 1, n),
                                   !.scores = sc, !.scores_state = st,
                                   !.scores_total = t, !.quorum = q,
                                   !.executableIf = e] :
              sc \in [1..n -> ScoreValues], st \in ScoresStates,
              t \in ScoresTotals, q \in Quorums, e \in ExecutableIfs } :
          n \in 0..MaxChoices }

\* the plugin has no txString; txString is the hash of another transaction;
\* txString has no "0x" in front; txString is the canonical encoding itself
PayloadVotes ==
  { [AuthorisedVote EXCEPT !.hasTxString = FALSE, !.txString = <<>>],
    [AuthorisedVote EXCEPT !.txString = HexString(TxHash(TxB))],
    [AuthorisedVote EXCEPT !.txString = HexOf(TxHash(TxA))],
    [AuthorisedVote EXCEPT
       !.txString = HexString(AbiEncode(TxA.to, TxA.value, TxA.data,
                                        TxA.operation))] }

\* txString is "0x" and the hex of n bytes, byte i being i * m mod 256
PatternBytes(n, m) == [i \in 1..n |-> (i * m) % 256]
CodecVotes ==
  { [AuthorisedVote EXCEPT !.txString = HexString(PatternBytes(n, m))] :
      n \in 0..MaxPayloadLen, m \in {1, 3} }

\* txString holds the commitments of a batch of transactions: TxB, TxA and
\* TxB, TxC, TxA
BatchVotes ==
  { [AuthorisedVote EXCEPT
       !.txString = HexString(TxHash(TxB) \o TxHash(TxA))],
    [AuthorisedVote EXCEPT
       !.txString = HexString(TxHash(TxB) \o TxHash(TxC) \o TxHash(TxA))] }

Votes ==
  DecisionVotes \cup PayloadVotes \cup CodecVotes \cup BatchVotes
    \cup {[AuthorisedVote EXCEPT !.error = TRUE]}

\* the record of a call: what was called, with what, and how it returned
NoCall ==
  [op |-> "constructor", caller |-> Owner, p |-> NoProposal,
   requestId |-> 0, err |-> <<>>, depth |-> 0, status |-> "ok",
   reason |-> NoReason, success |-> TRUE, returnData |-> <<>>]

\* the contract storage and the effects of the external calls made so far:
\* what a revert restores
Storage ==
  [executed |-> executed, proposals |-> proposals,
   functionRequestsForProposals |-> functionRequestsForProposals,
   dispatchLog |-> dispatchLog]

Init ==
  /\ functionRequestsForProposals = [r \in RequestIds |-> NoProposal]
  /\ proposals = [p \in ProposalIds |-> <<>>]
  /\ executed = [p \in ProposalIds |-> FALSE]
  /\ pendingRequests = {}
  /\ nextRequestId = 1
  /\ dispatchLog = <<>>
  /\ stack = <<>>
  /\ last = NoCall
  /\ vote = NoVote
  /\ resolution = NoResolution
  /\ pc = "start"

\* a require that fails, or a revert: the call returns with `reason` and
\* every write it made is discarded
Revert(c, reason) ==
  /\ last' = [c EXCEPT !.status = "reverted", !.reason = reason]
  /\ UNCHANGED <<functionRequestsForProposals, proposals, executed,
                 dispatchLog, stack>>

\* FunctionsClient.sendRequest: hands the request to the oracle, which
\* assigns the request id, and records the id as pending
sendRequest(requestId) ==
  /\ requestId = nextRequestId
  /\ nextRequestId' = nextRequestId + 1
  /\ pendingRequests' = pendingRequests \cup {requestId}

\* executeRequest without the require on the executed flag
executeRequestChecks_NoRequire(caller, args0) ==
  IF caller # Owner THEN OnlyOwner ELSE NoReason

\* the onlyOwner modifier and the require of executeRequest: the reason the
\* call reverts with, NoReason when it goes on
executeRequestChecks(caller, args0) ==
  IF caller # Owner THEN OnlyOwner
  ELSE IF executed[args0] THEN AlreadyExecuted
  ELSE NoReason

executeRequest(caller, args0) ==
  LET c == [NoCall EXCEPT !.op = "executeRequest", !.caller = caller,
                          !.p = args0]
      r == executeRequestChecks(caller, args0)
  IN  /\ stack = <<>>
      /\ IF r # NoReason
           THEN Revert(c, r) /\ UNCHANGED <<pendingRequests, nextRequestId>>
         ELSE /\ nextRequestId <= MaxRequests
              /\ \E requestId \in RequestIds :
                   /\ sendRequest(requestId)
                   /\ functionRequestsForProposals' =
                        [functionRequestsForProposals EXCEPT ![requestId] = args0]
                   /\ last' = [c EXCEPT !.requestId = requestId]
              /\ UNCHANGED <<proposals, executed, dispatchLog, stack>>

\* a callback that stores the new commitments and re-arms the proposal
fulfillRequest_Rearm(c, requestId, response, err) ==
  /\ proposals' =
       [proposals EXCEPT ![functionRequestsForProposals[requestId]] =
                           bytesToBytes32Array(response)]
  /\ executed' =
       [executed EXCEPT ![functionRequestsForProposals[requestId]] = FALSE]
  /\ last' = c
  /\ UNCHANGED <<functionRequestsForProposals, dispatchLog, stack>>

\* a callback without the require on the executed flag
fulfillRequest_NoRequire(c, requestId, response, err) ==
  /\ proposals' =
       [proposals EXCEPT ![functionRequestsForProposals[requestId]] =
                           bytesToBytes32Array(response)]
  /\ last' = c
  /\ UNCHANGED <<functionRequestsForProposals, executed, dispatchLog, stack>>

\* the body of the oracle callback; c is the record of the enclosing call
fulfillRequest(c, requestId, response, err) ==
  IF executed[functionRequestsForProposals[requestId]]
    THEN Revert(c, AlreadyExecuted)
  ELSE /\ proposals' =
            [proposals EXCEPT ![functionRequestsForProposals[requestId]] =
                                bytesToBytes32Array(response)]
       /\ last' = c
       /\ UNCHANGED <<functionRequestsForProposals, executed, dispatchLog,
                      stack>>

\* a fulfillment entry point that does not look at the pending requests
handleOracleFulfillment_NoPending(requestId, response, err) ==
  LET c == [NoCall EXCEPT !.op = "handleOracleFulfillment", !.caller = "oracle",
                          !.p = functionRequestsForProposals[requestId],
                          !.requestId = requestId, !.err = err]
  IN  /\ stack = <<>>
      /\ functionRequestsForProposals[requestId] # NoProposal
      /\ fulfillRequest(c, requestId, response, err)
      /\ pendingRequests' =
           IF last'.status = "reverted"
             THEN pendingRequests
             ELSE pendingRequests \ {requestId}
      /\ nextRequestId' = nextRequestId

\* FunctionsClient.handleOracleFulfillment: a result for a request id that
\* is not pending is ignored; the first result that the callback accepts
\* consumes the id
handleOracleFulfillment(requestId, response, err) ==
  LET c == [NoCall EXCEPT !.op = "handleOracleFulfillment", !.caller = "oracle",
                          !.p = functionRequestsForProposals[requestId],
                          !.requestId = requestId, !.err = err]
  IN  /\ stack = <<>>
      /\ IF requestId \notin pendingRequests
           THEN /\ last' = [c EXCEPT !.status = "ignored"]
                /\ UNCHANGED <<functionRequestsForProposals, proposals,
                               executed, pendingRequests, nextRequestId,
                               dispatchLog, stack>>
         ELSE /\ fulfillRequest(c, requestId, response, err)
              /\ pendingRequests' =
                   IF last'.status = "reverted"
                     THEN pendingRequests
                     ELSE pendingRequests \ {requestId}
              /\ nextRequestId' = nextRequestId

\* enum Operation { CALL, DELEGATECALL }
CALL == 0
DELEGATECALL == 1

\* a mapping that takes only 1 as DELEGATECALL
OperationOf_OnlyOne(operation) == IF operation = 1 THEN DELEGATECALL ELSE CALL

\* operation == 0 ? Operation.CALL : Operation.DELEGATECALL
OperationOf(operation) == IF operation = 0 THEN CALL ELSE DELEGATECALL

\* exec, given what the low-level call returned: the value exec returns, or
\* the revert it raises
exec(to, value, data, operation, success, returnData) ==
  IF operation = CALL
    THEN [reverted |-> FALSE, ret |-> success, reason |-> NoReason]
  ELSE IF operation = DELEGATECALL
    THEN [reverted |-> FALSE, ret |-> success, reason |-> NoReason]
  ELSE IF ~success
    THEN IF Len(returnData) = 0
           THEN [reverted |-> TRUE, ret |-> FALSE,
                 reason |-> SilentExecutionFailure]
           ELSE [reverted |-> TRUE, ret |-> FALSE,
                 reason |-> RawRevert(returnData)]
  ELSE [reverted |-> FALSE, ret |-> TRUE, reason |-> NoReason]

\* the checks without the require on the executed flag
executeProposalChecks_NoExecutedRequire(proposalId, to, value, data, operation, txIndex) ==
  IF txIndex >= Len(proposals[proposalId]) THEN IndexOutOfBounds
  ELSE IF Keccak256(AbiEncode(to, value, data, operation))
            # proposals[proposalId][txIndex + 1]
    THEN HashMismatch
  ELSE NoReason

\* checks that let a transaction through only at index 0 until it ran
executeProposalChecks_InOrder(proposalId, to, value, data, operation, txIndex) ==
  IF executed[proposalId] THEN AlreadyExecuted
  ELSE IF txIndex >= Len(proposals[proposalId]) THEN IndexOutOfBounds
  ELSE IF txIndex # 0 THEN HashMismatch
  ELSE IF Keccak256(AbiEncode(to, value, data, operation))
            # proposals[proposalId][txIndex + 1]
    THEN HashMismatch
  ELSE NoReason

\* the hash is compared with the first commitment, whatever txIndex is
executeProposalChecks_FirstIndex(proposalId, to, value, data, operation, txIndex) ==
  IF executed[proposalId] THEN AlreadyExecuted
  ELSE IF txIndex >= Len(proposals[proposalId]) THEN IndexOutOfBounds
  ELSE IF Keccak256(AbiEncode(to, value, data, operation))
            # proposals[proposalId][1]
    THEN HashMismatch
  ELSE NoReason

\* the requires of executeProposalWithIndex, in the order of the code: the
\* reason the call reverts with before any external call is made, NoReason
\* when it goes on to exec.  The read proposals[proposalId][txIndex] panics
\* when txIndex is not an index of the array.
executeProposalChecks(proposalId, to, value, data, operation, txIndex) ==
  IF executed[proposalId] THEN AlreadyExecuted
  ELSE IF txIndex >= Len(proposals[proposalId]) THEN IndexOutOfBounds
  ELSE IF Keccak256(AbiEncode(to, value, data, operation))
            # proposals[proposalId][txIndex + 1]
    THEN HashMismatch
  ELSE NoReason

\* executeProposalWithIndex that goes to exec without writing the flag
executeProposalWithIndexFrom_NoFlag(entry, proposalId, to, value, data, operation, txIndex) ==
  LET tx == [to |-> to, value |-> value, data |-> data, operation |-> operation]
      c == [NoCall EXCEPT !.op = entry, !.caller = "any", !.p = proposalId,
                          !.depth = Len(stack)]
      r == executeProposalChecks(proposalId, to, value, data, operation, txIndex)
  IN  /\ IF r # NoReason
           THEN Revert(c, r)
         ELSE /\ Len(stack) < MaxDepth
              /\ Len(dispatchLog) < MaxLog
              /\ stack' = Append(stack, [call |-> c, tx |-> tx,
                                         txIndex |-> txIndex, saved |-> Storage])
              /\ UNCHANGED <<functionRequestsForProposals, proposals, executed,
                             dispatchLog, last>>
      /\ UNCHANGED <<pendingRequests, nextRequestId>>

\* executeProposalWithIndex up to the external call of exec: the checks, the
\* executed-flag write, and the frame of the call that is now in progress
executeProposalWithIndexFrom(entry, proposalId, to, value, data, operation, txIndex) ==
  LET tx == [to |-> to, value |-> value, data |-> data, operation |-> operation]
      c == [NoCall EXCEPT !.op = entry, !.caller = "any", !.p = proposalId,
                          !.depth = Len(stack)]
      r == executeProposalChecks(proposalId, to, value, data, operation, txIndex)
  IN  /\ IF r # NoReason
           THEN Revert(c, r)
         ELSE /\ Len(stack) < MaxDepth
              /\ Len(dispatchLog) < MaxLog
              /\ executed' = [executed EXCEPT ![proposalId] = TRUE]
              /\ stack' = Append(stack, [call |-> c, tx |-> tx,
                                         txIndex |-> txIndex, saved |-> Storage])
              /\ UNCHANGED <<functionRequestsForProposals, proposals,
                             dispatchLog, last>>
      /\ UNCHANGED <<pendingRequests, nextRequestId>>

executeProposalWithIndex(proposalId, to, value, data, operation, txIndex) ==
  executeProposalWithIndexFrom("executeProposalWithIndex", proposalId, to,
                               value, data, operation, txIndex)

\* an executeProposal that passes txIndex 1
executeProposal_SecondIndex(proposalId, to, value, data, operation) ==
  executeProposalWithIndexFrom("executeProposal", proposalId, to, value, data,
                               operation, 1)

executeProposal(proposalId, to, value, data, operation) ==
  executeProposalWithIndexFrom("executeProposal", proposalId, to, value, data,
                               operation, 0)

\* the effect of a completed external call
Dispatched(f) ==
  [p |-> f.call.p, txIndex |-> f.txIndex, tx |-> f.tx,
   kind |-> OperationOf(f.tx.operation),
   valueSent |-> IF OperationOf(f.tx.operation) = CALL THEN f.tx.value ELSE 0]

\* a failed call that leaves the executed flags as the call wrote them
RevertFrame_KeepFlag(f, c, reason) ==
  /\ executed' = executed
  /\ proposals' = f.saved.proposals
  /\ functionRequestsForProposals' = f.saved.functionRequestsForProposals
  /\ dispatchLog' = f.saved.dispatchLog
  /\ stack' = SubSeq(stack, 1, Len(stack) - 1)
  /\ last' = [c EXCEPT !.status = "reverted", !.reason = reason]
  /\ UNCHANGED <<pendingRequests, nextRequestId>>

\* the revert of the innermost open call: its writes, and those of the calls
\* made inside it, are discarded
RevertFrame(f, c, reason) ==
  /\ executed' = f.saved.executed
  /\ proposals' = f.saved.proposals
  /\ functionRequestsForProposals' = f.saved.functionRequestsForProposals
  /\ dispatchLog' = f.saved.dispatchLog
  /\ stack' = SubSeq(stack, 1, Len(stack) - 1)
  /\ last' = [c EXCEPT !.status = "reverted", !.reason = reason]
  /\ UNCHANGED <<pendingRequests, nextRequestId>>

\* the external call of the innermost open executeProposalWithIndex returns
\* (success, returnData); the rest of exec and the require around it run
dispatchReturn(success, returnData) ==
  /\ stack # <<>>
  /\ LET f == stack[Len(stack)]
         c == [f.call EXCEPT !.success = success, !.returnData = returnData]
         r == exec(f.tx.to, f.tx.value, f.tx.data, OperationOf(f.tx.operation),
                   success, returnData)
     IN  IF r.reverted
           THEN RevertFrame(f, c, r.reason)
         ELSE IF ~r.ret
           THEN RevertFrame(f, c, ModuleFailed)
         ELSE /\ dispatchLog' = Append(dispatchLog, Dispatched(f))
              /\ stack' = SubSeq(stack, 1, Len(stack) - 1)
              /\ last' = c
              /\ UNCHANGED <<functionRequestsForProposals, proposals, executed,
                             pendingRequests, nextRequestId>>

\* a view that is true once every commitment of the proposal was dispatched
hasCompletelyExecuted_AllDispatched(proposalId) ==
  /\ executed[proposalId]
  /\ \A i \in 1..Len(proposals[proposalId]) :
       \E k \in DOMAIN dispatchLog :
         dispatchLog[k].p = proposalId /\ dispatchLog[k].txIndex = i - 1

\* function hasCompletelyExecuted(bytes32 proposalId)
hasCompletelyExecuted(proposalId) == executed[proposalId]

\* ---------------------------------------- the task functions-simulate
\* the sandbox run of the source: success with the returned Buffer, or
\* failure with the bytes of an error message
simulateRequest(r) ==
  IF r.kind = "return" /\ r.type = "Buffer"
    THEN [success |-> TRUE, result |-> r.bytes]
    ELSE [success |-> FALSE, result |-> CHOOSE e \in Errors : TRUE]

\* clientContract.executeRequest(...) sent by the deployer, the owner
simExecuteRequest(p) ==
  /\ pc = "start"
  /\ executeRequest(Owner, p)
  /\ pc' = "requested"
  /\ UNCHANGED <<vote, resolution>>

\* the source is run on the response v of the vote service
simSimulateRequest(v) ==
  /\ pc = "requested"
  /\ vote' = v
  /\ resolution' = snapshot(v)
  /\ pc' = "resolved"
  /\ UNCHANGED contractVars

\* registry.fulfillAndBill(requestId, success ? result : "0x",
\*                         success ? "0x" : result, ...)
fulfillAndBill ==
  /\ pc = "resolved"
  /\ LET sim == simulateRequest(resolution)
     IN  handleOracleFulfillment(nextRequestId - 1,
                                 IF sim.success THEN sim.result ELSE <<>>,
                                 IF sim.success THEN <<>> ELSE sim.result)
  /\ pc' = "fulfilled"
  /\ UNCHANGED <<vote, resolution>>

\* the tuples presented after the fulfillment: that of the vote, and others
SimTxs == {vote.tx, TxB, [TxA EXCEPT !.value = 0]}

\* the indices presented after the fulfillment: those of a batch of three
\* transactions are among them
SimTxIndices == 0..(MaxTxIndex + 1)

\* clientContract.executeProposal(id, to, value, data, operation)
simExecuteProposal(p, tx) ==
  /\ pc = "fulfilled"
  /\ executeProposal(p, tx.to, tx.value, tx.data, tx.operation)
  /\ UNCHANGED offchainVars

simExecuteProposalWithIndex(p, tx, i) ==
  /\ pc = "fulfilled"
  /\ executeProposalWithIndex(p, tx.to, tx.value, tx.data, tx.operation, i)
  /\ UNCHANGED offchainVars

simDispatchReturn(success, returnData) ==
  /\ pc = "fulfilled"
  /\ dispatchReturn(success, returnData)
  /\ UNCHANGED offchainVars

\* one run of the task on a fresh deployment: request, off-chain run of the
\* source, fulfillment, then execute calls
NextSimulate ==
  \/ \E p \in ProposalIds : simExecuteRequest(p)
  \/ \E v \in Votes : simSimulateRequest(v)
  \/ fulfillAndBill
  \/ \E p \in ProposalIds, tx \in SimTxs : simExecuteProposal(p, tx)
  \/ \E p \in ProposalIds, tx \in SimTxs, i \in SimTxIndices :
       simExecuteProposalWithIndex(p, tx, i)
  \/ \E success \in BOOLEAN, returnData \in ReturnDatas :
       simDispatchReturn(success, returnData)

SpecSimulate == Init /\ [][NextSimulate]_vars

\* the contract under arbitrary callers, oracle deliveries and callees
Next ==
  \/ \E caller \in Callers, p \in ProposalIds :
       executeRequest(caller, p) /\ UNCHANGED offchainVars
  \/ \E r \in RequestIds, d \in Deliveries :
       handleOracleFulfillment(r, d[1], d[2]) /\ UNCHANGED offchainVars
  \/ \E p \in ProposalIds, tx \in Txs :
       /\ executeProposal(p, tx.to, tx.value, tx.data, tx.operation)
       /\ UNCHANGED offchainVars
  \/ \E p \in ProposalIds, tx \in Txs, i \in TxIndices :
       /\ executeProposalWithIndex(p, tx.to, tx.value, tx.data, tx.operation, i)
       /\ UNCHANGED offchainVars
  \/ \E success \in BOOLEAN, returnData \in ReturnDatas :
       dispatchReturn(success, returnData) /\ UNCHANGED offchainVars

Spec == Init /\ [][Next]_vars

TypeOK ==
  /\ executed \in [ProposalIds -> BOOLEAN]
  /\ pendingRequests \subseteq RequestIds
  /\ nextRequestId \in 1..(MaxRequests + 1)
  /\ Len(stack) <= MaxDepth

\* ------------------------------------------------------- shared notions
ExecOps == {"executeProposal", "executeProposalWithIndex"}

\* tx hashes to the commitment that p holds at index i
Matches(p, tx, i) == i < Len(proposals[p]) /\ TxHash(tx) = proposals[p][i + 1]

\* the outcome of the checks of an execute call presenting tx at index i
Checks(p, tx, i) ==
  executeProposalChecks(p, tx.to, tx.value, tx.data, tx.operation, i)

\* the step is an execute call that returned before any external call
ExecReturned == stack' = stack /\ last'.op \in ExecOps

\* the step is an execute call that went to its external call
ExecOpened == Len(stack') = Len(stack) + 1

StorageUnchanged ==
  UNCHANGED <<functionRequestsForProposals, proposals, executed, dispatchLog>>

DispatchCount(p) == Cardinality({k \in DOMAIN dispatchLog : dispatchLog[k].p = p})
OpenFrames(p) == {k \in DOMAIN stack : stack[k].call.p = p}

\* executed[p] as it stands outside every open call: what remains if every
\* call in progress reverts
Durable(p) == IF stack = <<>> THEN executed[p] ELSE stack[1].saved.executed[p]

\* ------------------------------------------------------------------- C1
AtMostOnce ==
  \A p \in ProposalIds : DispatchCount(p) + Cardinality(OpenFrames(p)) <= 1

ExactlyOnceChecks ==
  \A p \in ProposalIds, tx \in Txs, i \in TxIndices :
    /\ executed[p] => Checks(p, tx, i) = AlreadyExecuted
    /\ (~executed[p] /\ Matches(p, tx, i)) => Checks(p, tx, i) = NoReason

ExactlyOnceStep ==
  /\ ExecReturned =>
       /\ last'.status = "reverted"
       /\ executed[last'.p] => last'.reason = AlreadyExecuted
       /\ StorageUnchanged
  /\ ExecOpened =>
       LET f == stack'[Len(stack')]
       IN  /\ ~executed[f.call.p] /\ Matches(f.call.p, f.tx, f.txIndex)
           /\ executed'[f.call.p]
  /\ \A rd \in ReturnDatas :
       dispatchReturn(TRUE, rd) =>
         /\ last'.status = "ok" /\ last'.p = stack[Len(stack)].call.p
         /\ executed'[last'.p]
         /\ dispatchLog' = Append(dispatchLog, Dispatched(stack[Len(stack)]))

\* C1: an execute call presenting a tuple that hashes to the commitment p
\* holds at the index, on a proposal not yet executed, passes the checks, goes
\* to the external call with executed[p] set and, when that call succeeds,
\* succeeds; every execute call on an executed proposal fails with "Proposal
\* already executed" and changes nothing; over every sequence of calls each
\* proposal is dispatched at most once.
C1_ExactlyOnce ==
  /\ [](AtMostOnce /\ ExactlyOnceChecks)
  /\ [][ExactlyOnceStep]_vars

\* a proposal was dispatched and a repeated execute call was then refused
C1_Witness ==
  /\ stack = <<>>
  /\ last.op \in ExecOps /\ last.status = "reverted"
  /\ last.reason = AlreadyExecuted
  /\ executed[last.p] /\ DispatchCount(last.p) = 1

\* ------------------------------------------------------------------- C2
MismatchChecks ==
  \A p \in ProposalIds, tx \in Txs, i \in TxIndices :
    (~executed[p] /\ i < Len(proposals[p]) /\ TxHash(tx) # proposals[p][i + 1])
      => Checks(p, tx, i) = HashMismatch

MismatchStep ==
  (ExecReturned /\ last'.reason = HashMismatch) =>
    /\ last'.status = "reverted"
    /\ StorageUnchanged
    /\ UNCHANGED <<pendingRequests, nextRequestId>>
    /\ ~executed'[last'.p]

\* C2: an execute call on a proposal not yet executed, presenting a tuple
\* whose hash differs from the commitment held at txIndex, fails with "Tx
\* hash mismatch"; the call makes no external call and leaves the executed
\* flags, the commitments and the request correlation as they were.
C2_HashMismatch == []MismatchChecks /\ [][MismatchStep]_vars

\* an execute call was refused for its hash and the proposal is still open
C2_Witness ==
  /\ stack = <<>>
  /\ last.op \in ExecOps /\ last.reason = HashMismatch
  /\ ~executed[last.p] /\ proposals[last.p] # <<>>

\* ------------------------------------------------------------------- C3
DispatchFailureStep ==
  \A rd \in ReturnDatas :
    dispatchReturn(FALSE, rd) =>
      LET f == stack[Len(stack)]
          p == f.call.p
      IN  /\ last'.status = "reverted" /\ last'.p = p
          /\ executed' = f.saved.executed /\ ~executed'[p]
          /\ proposals' = f.saved.proposals /\ proposals'[p] = proposals[p]
          /\ dispatchLog' = f.saved.dispatchLog
          /\ functionRequestsForProposals' = f.saved.functionRequestsForProposals
          /\ f.txIndex < Len(proposals'[p])
          /\ TxHash(f.tx) = proposals'[p][f.txIndex + 1]

\* C3: when the external call of an execute call fails, the call reverts:
\* afterwards the storage is what it was when the call was entered,
\* executed[p] is false, the commitments of p are unchanged, and the tuple
\* still matches the commitment, so that the same call is accepted again.
C3_DispatchRollback == [][DispatchFailureStep]_vars

\* an execute call failed in its external call and the proposal is open again
C3_Witness ==
  /\ stack = <<>>
  /\ last.op \in ExecOps /\ last.status = "reverted" /\ ~last.success
  /\ ~executed[last.p] /\ proposals[last.p] # <<>>
  /\ \E tx \in Txs : Checks(last.p, tx, 0) = NoReason

\* ------------------------------------------------------------------- C4
\* C4: once executed[p] is true outside every call in progress, it is true
\* in every later state, inside and outside calls in progress.
C4_ExecutedMonotonic ==
  [][\A p \in ProposalIds : Durable(p) => (Durable(p)' /\ executed'[p])]_vars

\* an executed proposal that is still executed after a later execute call,
\* for another proposal, failed in its external call and was reverted
C4_Witness ==
  /\ stack = <<>>
  /\ last.op \in ExecOps /\ last.status = "reverted" /\ ~last.success
  /\ \E p \in ProposalIds : p # last.p /\ executed[p] /\ DispatchCount(p) = 1

\* ------------------------------------------------------------------- C5
HashVerified(p, tx, i) == i < Len(proposals[p]) /\ TxHash(tx) = proposals[p][i + 1]

\* C5: a proposal whose executed flag is set holds at least one commitment,
\* and one of its indices was hash-verified and dispatched successfully (or,
\* inside a call in progress, is being dispatched).
C5_ExecutedImpliesDispatched ==
  \A p \in ProposalIds :
    executed[p] =>
      /\ Len(proposals[p]) > 0
      /\ \/ \E k \in DOMAIN dispatchLog :
              /\ dispatchLog[k].p = p
              /\ HashVerified(p, dispatchLog[k].tx, dispatchLog[k].txIndex)
         \/ \E k \in OpenFrames(p) :
              HashVerified(p, stack[k].tx, stack[k].txIndex)

\* an executed proposal for which an oracle result was delivered afterwards
C5_Witness ==
  /\ stack = <<>>
  /\ last.op = "handleOracleFulfillment" /\ last.status = "reverted"
  /\ executed[last.p] /\ DispatchCount(last.p) = 1

\* ------------------------------------------------------------------- C6
\* C6: once a proposal holds a non-empty commitment list, no later oracle
\* result that carries a payload changes the list.
C6_CommitmentsImmutable ==
  [][\A p \in ProposalIds :
       (proposals[p] # <<>> /\ last'.op = "handleOracleFulfillment"
          /\ last'.err = <<>>)
         => proposals'[p] = proposals[p]]_vars

\* ------------------------------------------------------------------- C7
\* C7: an oracle result that carries an error and no payload leaves the
\* commitments of every proposal as they were.
C7_ErrorStoresNothing ==
  [][\A r \in RequestIds, e \in Errors :
       handleOracleFulfillment(r, <<>>, e) => proposals' = proposals]_vars

\* ------------------------------------------------------------------- C8
\* the step is a delivery of an oracle result
OracleStep == stack' = stack /\ last'.op = "handleOracleFulfillment"

RedeliveryStep ==
  OracleStep =>
    \A d \in Deliveries :
      handleOracleFulfillment(last'.requestId, d[1], d[2]) =>
        LET r == last'.requestId
        IN  /\ r \notin pendingRequests =>
                 /\ last'.status = "ignored"
                 /\ StorageUnchanged
                 /\ UNCHANGED <<pendingRequests, nextRequestId>>
            /\ (r \in pendingRequests /\ last'.status = "ok") =>
                 /\ r \notin pendingRequests'
                 /\ proposals'[functionRequestsForProposals[r]]
                      = bytesToBytes32Array(d[1])

BeginResolutionChecks ==
  \A p \in ProposalIds :
    executeRequestChecks(Owner, p) =
      IF executed[p] THEN AlreadyExecuted ELSE NoReason

BeginResolutionStep ==
  (last'.op = "executeRequest" /\ last'.caller = Owner
     /\ executeRequest(Owner, last'.p)) =>
    IF executed[last'.p]
      THEN /\ last'.status = "reverted" /\ last'.reason = AlreadyExecuted
           /\ StorageUnchanged
           /\ UNCHANGED <<pendingRequests, nextRequestId>>
      ELSE /\ last'.status = "ok"
           /\ last'.requestId = nextRequestId
           /\ last'.requestId \in pendingRequests' \ pendingRequests
           /\ functionRequestsForProposals'[last'.requestId] = last'.p

\* C9: executeRequest called by the owner for proposal p reverts with
\* "Proposal already executed" when executed[p] is true, and then records no
\* request id and sends no request; when executed[p] is false it sends the
\* request and records the returned request id for p.
C9_BeginResolution == []BeginResolutionChecks /\ [][BeginResolutionStep]_vars

\* a resolution was requested for an executed proposal, and refused
C9_Witness ==
  /\ last.op = "executeRequest" /\ last.caller = Owner
  /\ last.status = "reverted" /\ last.reason = AlreadyExecuted
  /\ executed[last.p] /\ stack = <<>>

\* ------------------------------------------------------------------ C10
\* C10: when the external call fails and returns a non-empty payload, the
\* execute call fails with that payload, verbatim, as its revert data.
C10_BubbleUp ==
  [][\A rd \in ReturnDatas :
       (rd # <<>> /\ dispatchReturn(FALSE, rd)) => last'.reason = RawRevert(rd)]_vars

\* ------------------------------------------------------------------ C11
\* C11: when the external call fails and returns an empty payload, the
\* execute call fails with the reason "Transaction reverted silently", for a
\* CALL and for a DELEGATECALL alike.
C11_SilentFailure ==
  [][dispatchReturn(FALSE, <<>>) => last'.reason = SilentExecutionFailure]_vars

\* ------------------------------------------- the off-chain run: notions
\* the source has run on the response held in vote
Resolved == pc \in {"resolved", "fulfilled"}
Final(v) == v.scores_state = "final"
QuorumMet(v) == v.scores_total >= v.quorum
\* k is the lowest index (from 1) at which scores attains its maximum
LowestArgmax(scores, k) ==
  /\ k \in DOMAIN scores
  /\ \A i \in DOMAIN scores : scores[i] <= scores[k]
  /\ \A j \in 1..(k - 1) : scores[j] < scores[k]
Wins(v, k) == LowestArgmax(v.scores, k) /\ k \in DOMAIN v.choices
Authorised(v) ==
  /\ ~v.error /\ Final(v) /\ QuorumMet(v)
  /\ \E k \in DOMAIN v.scores : Wins(v, k) /\ v.executableIf = v.choices[k]
IsPayload(r) == r.kind = "return" /\ r.type = "Buffer"

\* ------------------------------------------------------------------ C12
\* C12: when the vote is final, quorum is met and executableIf is the winning
\* choice, the payload the source returns decodes to the hash of the first
\* transaction of the vote, and once that payload is committed an execute
\* call with that transaction passes the checks.
C12_EndToEnd ==
  (Resolved /\ Authorised(vote)) =>
    /\ IsPayload(resolution)
    /\ bytesToBytes32Array(resolution.bytes) = <<TxHash(vote.tx)>>
    /\ (pc = "fulfilled" /\ last.op = "handleOracleFulfillment") =>
         Checks(last.p, vote.tx, 0) = NoReason

\* ------------------------------------------------------------------ C13
\* C13: on a response whose scores_state is not "final" the source throws
\* "Snapshot vote is not final" and yields no payload, whatever the scores,
\* scores_total, quorum, choices and executableIf are; in particular when
\* scores_total is below the quorum as well.
C13_NotFinalized ==
  (Resolved /\ ~vote.error /\ ~Final(vote)) =>
    /\ resolution = NotFinalized
    /\ ~IsPayload(resolution) /\ resolution.bytes = <<>>
    /\ ~simulateRequest(resolution).success

C13_Witness ==
  /\ Resolved /\ ~vote.error /\ ~Final(vote) /\ ~QuorumMet(vote)
  /\ vote.executableIf = "B" /\ vote.scores = <<1, 5, 5>>
  /\ resolution = NotFinalized

\* ------------------------------------------------------------------ C14
\* C14: on a final vote the source throws "Snapshot vote quorum not reached"
\* if and only if scores_total < quorum (scores_total = quorum passes), and
\* then yields no payload.
C14_Quorum ==
  (Resolved /\ ~vote.error /\ Final(vote)) =>
    /\ (resolution = QuorumNotReached) <=> (vote.scores_total < vote.quorum)
    /\ (vote.scores_total < vote.quorum) =>
         (~IsPayload(resolution) /\ resolution.bytes = <<>>)

C14_Witness ==
  /\ Resolved /\ ~vote.error /\ Final(vote)
  /\ vote.scores_total = vote.quorum
  /\ resolution # QuorumNotReached /\ IsPayload(resolution)

\* ------------------------------------------------------------------ C15
\* C15: for non-empty choices and scores of equal length the winning choice
\* is choices[k], k the lowest index at which scores attains its maximum, and
\* the source goes on to the payload exactly when executableIf is that choice.
C15_WinningChoice ==
  (Resolved /\ vote.scores # <<>> /\ Len(vote.choices) = Len(vote.scores)) =>
    \A k \in DOMAIN vote.scores :
      LowestArgmax(vote.scores, k) =>
        /\ winningChoice(vote.choices, vote.scores) = vote.choices[k]
        /\ shouldExecute(vote.executableIf, vote.choices, vote.scores)
             <=> (vote.executableIf = vote.choices[k])
        /\ (~vote.error /\ Final(vote) /\ QuorumMet(vote)) =>
             ((resolution = NoExecution)
                <=> (vote.executableIf # vote.choices[k]))

C15_Witness ==
  /\ Resolved /\ ~vote.error /\ Final(vote) /\ QuorumMet(vote)
  /\ vote.choices = <<"A", "B", "C">> /\ vote.scores = <<1, 5, 5>>
  /\ vote.executableIf = "B"
  /\ winningChoice(vote.choices, vote.scores) = "B"
  /\ resolution # NoExecution

Decodes(data, words) ==
  /\ Len(words) * WordSize <= Len(data)
  /\ Len(data) < (Len(words) + 1) * WordSize
  /\ \A k \in 0..(Len(words) - 1) :
       /\ Len(words[k + 1]) = WordSize
       /\ \A j \in 0..(WordSize - 1) :
            words[k + 1][j + 1] = data[WordSize * k + j + 1]

C17_Decode ==
  (Resolved /\ IsPayload(resolution)) =>
    /\ Decodes(resolution.bytes, bytesToBytes32Array(resolution.bytes))
    /\ Len(resolution.bytes) = 2 * WordSize =>
         Len(bytesToBytes32Array(resolution.bytes)) = 2
    /\ Len(resolution.bytes) = 0 => bytesToBytes32Array(resolution.bytes) = <<>>
    /\ pc = "fulfilled" =>
         Decodes(resolution.bytes,
                 proposals[functionRequestsForProposals[nextRequestId - 1]])

C17_Witness ==
  /\ pc = "fulfilled" /\ IsPayload(resolution)
  /\ Len(resolution.bytes) = 50
  /\ Len(proposals[functionRequestsForProposals[nextRequestId - 1]]) = 1
  /\ proposals[functionRequestsForProposals[nextRequestId - 1]][1][WordSize]
       = resolution.bytes[WordSize]

\* ------------------------------------------------------------------ C18
\* C18: from every state, executeProposal(p, to, value, data, operation) and
\* executeProposalWithIndex(p, to, value, data, operation, 0) have the same
\* outcome (both go on to the external call of the same tuple at index 0, or
\* both revert with the same reason) and leave the same storage.
IndexZeroOutcome(p, tx) ==
  IF Checks(p, tx, 0) # NoReason
    THEN /\ last'.status = "reverted" /\ last'.reason = Checks(p, tx, 0)
         /\ last'.p = p
         /\ stack' = stack
         /\ StorageUnchanged
    ELSE /\ Len(stack') = Len(stack) + 1
         /\ SubSeq(stack', 1, Len(stack)) = stack
         /\ stack'[Len(stack')].tx = tx
         /\ stack'[Len(stack')].txIndex = 0
         /\ stack'[Len(stack')].call.p = p
         /\ stack'[Len(stack')].saved = Storage
         /\ executed' = [executed EXCEPT ![p] = TRUE]
         /\ UNCHANGED <<functionRequestsForProposals, proposals, dispatchLog,
                        last>>

C18_DefaultIndex ==
  [][\A p \in ProposalIds, tx \in SimTxs :
       /\ executeProposal(p, tx.to, tx.value, tx.data, tx.operation)
            => IndexZeroOutcome(p, tx)
       /\ executeProposalWithIndex(p, tx.to, tx.value, tx.data, tx.operation, 0)
            => IndexZeroOutcome(p, tx)]_vars

C18_Witness ==
  /\ last.op = "executeProposal" /\ last.status = "ok" /\ stack = <<>>
  /\ hasCompletelyExecuted(last.p)
  /\ \E k \in DOMAIN dispatchLog :
       /\ dispatchLog[k].p = last.p /\ dispatchLog[k].txIndex = 0
       /\ TxHash(dispatchLog[k].tx) = proposals[last.p][1]

\* ------------------------------------------------------------------ C19
\* C19: whenever an external call is in progress, executed[p] of its proposal
\* is already set (and was not on entry) and the tuple being dispatched is the
\* one whose hash is the commitment at its index; an execute call for p made
\* while the external call for p is in progress fails with "Proposal already
\* executed", and no second external call for p is started.
OrderingInv ==
  \A k \in DOMAIN stack :
    /\ executed[stack[k].call.p]
    /\ ~stack[k].saved.executed[stack[k].call.p]
    /\ Matches(stack[k].call.p, stack[k].tx, stack[k].txIndex)
    /\ \A j \in DOMAIN stack : stack[j].call.p = stack[k].call.p => j = k

ReentrantStep ==
  /\ (ExecReturned /\ OpenFrames(last'.p) # {}) =>
       /\ last'.status = "reverted" /\ last'.reason = AlreadyExecuted
       /\ UNCHANGED <<executed, dispatchLog>>
  /\ ExecOpened => OpenFrames(stack'[Len(stack')].call.p) = {}

C19_FlagBeforeDispatch ==
  /\ []OrderingInv
  /\ [][ReentrantStep]_vars

\* the callee of the external call for p called executeProposal for p
C19_Witness ==
  /\ stack # <<>>
  /\ last.op = "executeProposal" /\ last.depth = Len(stack)
  /\ last.p = stack[Len(stack)].call.p
  /\ last.status = "reverted" /\ last.reason = AlreadyExecuted
  /\ executed[last.p] /\ DispatchCount(last.p) = 0

\* ------------------------------------------------------------------ C20
\* C20: an execute call on a proposal that is not executed and holds no
\* commitment at the index presented (here: holds no commitment at all, so
\* whatever the index is) fails with "Tx hash mismatch", starts no external
\* call and leaves executed[p] false.
C20_NoCommitment ==
  [][(/\ last'.op \in ExecOps /\ last' # last
      /\ ~executed[last'.p] /\ proposals[last'.p] = <<>>) =>
       /\ last'.status = "reverted" /\ last'.reason = HashMismatch
       /\ stack' = stack
       /\ UNCHANGED <<executed, dispatchLog>>]_vars

\* ------------------------------------------------------------------ C21
\* C21: on a proposal that is not executed and holds n >= 2 commitments, an
\* execute call presenting at any index i < n the tuple committed there passes
\* the checks, whatever calls were made before (none at a lower index, or
\* failed ones); the call that goes to the external call is the first for the
\* proposal, and its dispatch is recorded at index i.
AnyIndexChecks ==
  \A p \in ProposalIds :
    (~executed[p] /\ Len(proposals[p]) >= 2) =>
      \A i \in SimTxIndices, tx \in SimTxs :
        (i < Len(proposals[p]) /\ TxHash(tx) = proposals[p][i + 1]) =>
          Checks(p, tx, i) = NoReason

AnyIndexStep ==
  ExecOpened =>
    LET f == stack'[Len(stack')]
    IN  /\ DispatchCount(f.call.p) = 0
        /\ Matches(f.call.p, f.tx, f.txIndex)
        /\ UNCHANGED <<proposals, functionRequestsForProposals>>

C21_AnyIndexFirst ==
  /\ []AnyIndexChecks
  /\ [][AnyIndexStep]_vars

\* the third of three commitments was dispatched, the first never was
C21_Witness ==
  /\ stack = <<>> /\ last.status = "ok"
  /\ last.op = "executeProposalWithIndex"
  /\ Len(proposals[last.p]) = 3
  /\ \E k \in DOMAIN dispatchLog :
       dispatchLog[k].p = last.p /\ dispatchLog[k].txIndex = 2
  /\ \A k \in DOMAIN dispatchLog : dispatchLog[k].txIndex # 0

\* ------------------------------------------------------------------ C22
\* C22: the executed flag is per proposal.  Once one commitment of a proposal
\* has been dispatched, hasCompletelyExecuted(p) is true whatever the number
\* of its commitments, every execute call for p, at any index and with the
\* tuple committed there, fails with "Proposal already executed", and no
\* other commitment of p is ever dispatched.
PerProposalInv ==
  \A p \in ProposalIds :
    DispatchCount(p) >= 1 =>
      /\ hasCompletelyExecuted(p)
      /\ DispatchCount(p) = 1 /\ OpenFrames(p) = {}
      /\ \A i \in SimTxIndices, tx \in SimTxs :
           Checks(p, tx, i) = AlreadyExecuted

PerProposalStep ==
  (ExecReturned /\ DispatchCount(last'.p) >= 1) =>
    /\ last'.status = "reverted" /\ last'.reason = AlreadyExecuted
    /\ StorageUnchanged

LateResultStep ==
  /\ (/\ OracleStep
      /\ last'.requestId \in pendingRequests
      /\ executed[functionRequestsForProposals[last'.requestId]]) =>
       /\ last'.status = "reverted" /\ last'.reason = AlreadyExecuted
       /\ last'.p = functionRequestsForProposals[last'.requestId]
       /\ StorageUnchanged
  /\ \A p \in ProposalIds : executed[p] => proposals'[p] = proposals[p]

C23_LateResultRejected == [][LateResultStep]_vars

\* a request was made for p, p was executed against the commitments of an
\* earlier request, and the result of the later request, an error, arrived
C23_Witness ==
  /\ stack = <<>>
  /\ last.op = "handleOracleFulfillment" /\ last.err # <<>>
  /\ last.status = "reverted" /\ last.reason = AlreadyExecuted
  /\ last.requestId \in pendingRequests
  /\ \E r \in RequestIds :
       /\ r < last.requestId /\ r \notin pendingRequests
       /\ functionRequestsForProposals[r] = last.p
  /\ executed[last.p] /\ proposals[last.p] # <<>>

\* ------------------------------------------------------------------ C24
\* C24: the operation of the presented tuple is hashed with the other fields
\* and is not validated: a tuple whose hash is the commitment passes the
\* checks whatever its operation is, operation 0 is dispatched as a CALL
\* carrying the value, and every other operation (2 as well as 1) is
\* dispatched as a DELEGATECALL that transfers no value.
DispatchKind(d) ==
  /\ d.tx.operation = 0 => (d.kind = CALL /\ d.valueSent = d.tx.value)
  /\ d.tx.operation # 0 => (d.kind = DELEGATECALL /\ d.valueSent = 0)

C24_OperationUnvalidated ==
  /\ \A k \in DOMAIN dispatchLog : DispatchKind(dispatchLog[k])
  /\ \A k \in DOMAIN stack : DispatchKind(Dispatched(stack[k]))
  /\ \A p \in ProposalIds, i \in TxIndices, tx \in Txs :
       /\ (~executed[p] /\ Matches(p, tx, i)) => Checks(p, tx, i) = NoReason
       /\ (~executed[p] /\ Matches(p, tx, i)) =>
            \A op \in {0, 1, 2} :
              op # tx.operation =>
                Checks(p, [tx EXCEPT !.operation = op], i) = HashMismatch

\* a commitment made over operation 2 was dispatched as a DELEGATECALL
C24_Witness ==
  \E k \in DOMAIN dispatchLog :
    /\ dispatchLog[k].tx.operation = 2
    /\ dispatchLog[k].kind = DELEGATECALL
    /\ dispatchLog[k].tx.value > 0 /\ dispatchLog[k].valueSent = 0
    /\ executed[dispatchLog[k].p]

====
